---- MODULE Spec2Model ----
(***************************************************************************)
(* Turn-based core of the roguelike: Fighter (components/fighter.py), the  *)
(* Action hierarchy (actions.py), the consumables                          *)
(* (components/consumable.py), the inventory (components/inventory.py) and *)
(* the input-handler state machine with its turn driver                    *)
(* (input_handlers.py).  One input event is processed to completion before *)
(* the next one is accepted, so every event is one step of the model.      *)
(***************************************************************************)
EXTENDS Integers, Sequences, FiniteSets, TLC

VARIABLES
    actors,       \* actor id -> [x, y, hp, ai, blocks_movement, remains, items,
                  \*              capacity]
    items,        \* item id  -> [x, y, parent]
    entities,     \* the map's item collection, in collection order
    handler,      \* engine.event_handler (the active handler's class)
    running,      \* FALSE once SystemExit has left handle_events
    log,          \* messages added to engine.message_log by the last event
    calls,        \* engine calls made by handle_action in the last event
    event,        \* the last event dispatched
    action,       \* the action the last event produced (type "None": no action)
    outcome,      \* how the last perform ended
    raised,       \* the message of the exception the last perform raised
    reported,     \* what the last handle_action returned
    mouse_location, \* engine.mouse_location
    viewer,       \* the HistoryViewer's log_length and cursor
    clamp_prefers, \* the limit utility.clamp returns when lo > hi
    callback,     \* the action the callback of a ranged-attack handler returns
    visible,      \* game_map.visible: the tiles in the player's field of view
    consumables   \* item id -> its Consumable (parameters only, never mutated)

vars == <<actors, items, entities, handler, running, log, calls, event, action,
          outcome, raised, reported, mouse_location, viewer, clamp_prefers,
          callback, visible, consumables>>

----------------------------------------------------------------------------
(* Bounds of the model *)

\* fighter stats of the three actors (entity construction is outside src/)
PlayerMaxHp == 3
OrcMaxHp == 1
TrollMaxHp == 2
\* the largest amount a fighter is damaged or healed by in a direct call
MaxAmount == 3
\* the largest capacity of the player's inventory
MaxCapacity == 2
\* the largest maximum_range of a lightning scroll
MaxRange == 2
\* the longest message log the history viewer is opened on
MaxLog == 12
\* the largest cursor the history viewer is followed to
MaxCursor == 24

----------------------------------------------------------------------------
(* The map (game_map.py, outside src/) *)

GameMapWidth == 3
GameMapHeight == 2

Player == "player"
Orc == "orc"
Troll == "troll"
\* the scan order of the map's entity collection
ActorOrder == <<Player, Orc, Troll>>
ActorIds == {Player, Orc, Troll}

\* GameMap.actors order, over the actors the map holds
actor_order(w) == SelectSeq(ActorOrder, LAMBDA a : a \in DOMAIN w.actors)

Potion == "potion"
Scroll == "scroll"
ItemIds == {Potion, Scroll}

NoOne == "nobody"
GameMap == "gamemap"

\* the wall tiles of the map (tile_types.wall: walkable = False)
Walls == {<<1, 1>>}

in_bounds(x, y) == 0 <= x /\ x < GameMapWidth /\ 0 <= y /\ y < GameMapHeight

walkable(x, y) == <<x, y>> \notin Walls

max_hp == [a \in ActorIds |->
              IF a = Player THEN PlayerMaxHp
              ELSE IF a = Orc THEN OrcMaxHp ELSE TrollMaxHp]
power == [a \in ActorIds |-> IF a = Player THEN 1 ELSE IF a = Orc THEN 1 ELSE 3]
defense == [a \in ActorIds |-> IF a = Player THEN 1 ELSE IF a = Orc THEN 3 ELSE 0]

\* first element of a sequence satisfying a test, or a default
RECURSIVE FirstActorAt(_, _, _, _)
FirstActorAt(w, order, x, y) ==
    IF order = <<>> THEN NoOne
    ELSE IF w.actors[Head(order)].ai
            /\ w.actors[Head(order)].x = x /\ w.actors[Head(order)].y = y
         THEN Head(order)
         ELSE FirstActorAt(w, Tail(order), x, y)

\* GameMap.get_actor_at_location: the first living actor at (x, y)
get_actor_at_location(w, x, y) == FirstActorAt(w, actor_order(w), x, y)

RECURSIVE FirstBlockingAt(_, _, _, _)
FirstBlockingAt(w, order, x, y) ==
    IF order = <<>> THEN NoOne
    ELSE IF w.actors[Head(order)].blocks_movement
            /\ w.actors[Head(order)].x = x /\ w.actors[Head(order)].y = y
         THEN Head(order)
         ELSE FirstBlockingAt(w, Tail(order), x, y)

\* GameMap.get_blocking_entity_at_location (items never block movement)
get_blocking_entity_at_location(w, x, y) ==
    FirstBlockingAt(w, actor_order(w), x, y)

\* Entity.move
move(w, e, dx, dy) ==
    [w EXCEPT !.actors[e].x = @ + dx, !.actors[e].y = @ + dy]

----------------------------------------------------------------------------
(* Messages and outcomes *)

Msg(text, who, whom, n, color) ==
    [text |-> text, who |-> who, whom |-> whom, n |-> n, color |-> color]

\* MessageLog.add_message
add_message(w, m) == [w EXCEPT !.log = Append(@, m)]

Return(w, value) == [w |-> w, outcome |-> value, msg |-> ""]
Raise(w, exc, msg) == [w |-> w, outcome |-> exc, msg |-> msg]

\* utility.clamp: value brought into lo..hi.  With lo > hi, which no call but
\* the history viewer's makes, max(lo, min(value, hi)) returns lo and
\* min(hi, max(value, lo)) returns hi
clamp(value, lo, hi) ==
    IF lo <= hi
    THEN IF value < lo THEN lo ELSE IF value > hi THEN hi ELSE value
    ELSE IF clamp_prefers = "lo" THEN lo ELSE hi

Min(a, b) == IF a < b THEN a ELSE b

----------------------------------------------------------------------------
(* components/fighter.py *)

\* a death that leaves the active handler as it was
die_keeps_handler(w, e) ==
    add_message([w EXCEPT !.actors[e].blocks_movement = FALSE,
                          !.actors[e].ai = FALSE,
                          !.actors[e].remains = @ + 1],
        IF e = Player
        THEN Msg("You died!", e, NoOne, 0, "player_die")
        ELSE Msg("is dead!", e, NoOne, 0, "enemy_die"))

\* Fighter.die
die(w, e) ==
    LET w1 == IF e = Player THEN [w EXCEPT !.handler = "GameOver"] ELSE w
        w2 == [w1 EXCEPT !.actors[e].blocks_movement = FALSE,
                         !.actors[e].ai = FALSE,
                         !.actors[e].remains = @ + 1]
    IN  add_message(w2,
            IF e = Player
            THEN Msg("You died!", e, NoOne, 0, "player_die")
            ELSE Msg("is dead!", e, NoOne, 0, "enemy_die"))

\* a setter that lets a fighter die whenever its hit points are zero
die_at_every_zero(w, e) == IF w.actors[e].hp = 0 THEN die(w, e) ELSE w

\* Fighter.hp setter, after _hp has been assigned
die_at_zero(w, e) ==
    IF w.actors[e].hp = 0 /\ w.actors[e].ai THEN die(w, e) ELSE w

\* a setter that limits the hit points from above only
set_hp_without_floor(w, e, value) ==
    die_at_zero([w EXCEPT !.actors[e].hp =
                    IF value > max_hp[e] THEN max_hp[e] ELSE value], e)

\* Fighter.hp setter
set_hp(w, e, value) ==
    die_at_zero([w EXCEPT !.actors[e].hp = clamp(value, 0, max_hp[e])], e)

\* a heal that does not limit the new value by max_hp
heal_uncapped(w, e, amount) ==
    IF w.actors[e].hp = max_hp[e] THEN [w |-> w, recovered |-> 0]
    ELSE [w |-> set_hp(w, e, w.actors[e].hp + amount), recovered |-> amount]

\* Fighter.heal: the world after the call and the amount it returns
heal(w, e, amount) ==
    IF w.actors[e].hp = max_hp[e] THEN [w |-> w, recovered |-> 0]
    ELSE LET new_hp_value == Min(w.actors[e].hp + amount, max_hp[e])
         IN  [w |-> set_hp(w, e, new_hp_value),
              recovered |-> new_hp_value - w.actors[e].hp]

\* Fighter.take_damage
take_damage(w, e, amount) == set_hp(w, e, w.actors[e].hp - amount)

----------------------------------------------------------------------------
(* components/inventory.py, components/consumable.py *)

RECURSIVE RemoveFirst(_, _)
\* list.remove: the list without the first occurrence of x
RemoveFirst(s, x) ==
    IF s = <<>> THEN <<>>
    ELSE IF Head(s) = x THEN Tail(s)
    ELSE <<Head(s)>> \o RemoveFirst(Tail(s), x)

Contains(s, x) == \E i \in 1..Len(s) : s[i] = x

\* Item.place (entity.py): position the item and hand it to the map
place(w, it, x, y) ==
    [w EXCEPT !.items[it] = [x |-> x, y |-> y, parent |-> GameMap],
              !.entities = IF Contains(@, it) THEN @ ELSE Append(@, it)]

\* Inventory.drop
drop(w, e, it) ==
    IF ~Contains(w.actors[e].items, it) THEN Raise(w, "ValueError", "")
    ELSE LET w1 == [w EXCEPT !.actors[e].items = RemoveFirst(@, it)]
             w2 == place(w1, it, w1.actors[e].x, w1.actors[e].y)
         IN  Return(IF e = Player
                    THEN add_message(w2, Msg("You dropped the", e, it, 0, "white"))
                    ELSE w2,
                    "None")

\* Consumable.consume
consume(w, it) ==
    LET inventory == w.items[it].parent
    IN  IF inventory \in ActorIds
        THEN IF Contains(w.actors[inventory].items, it)
             THEN Return([w EXCEPT !.actors[inventory].items = RemoveFirst(@, it)],
                         "None")
             ELSE Raise(w, "ValueError", "")
        ELSE Return(w, "None")

\* a potion that is used up even when it heals nothing
HealingConsumable_activate_used_up(w, consumer, it) ==
    LET h == heal(w, consumer, consumables[it].amount)
    IN  IF h.recovered > 0
        THEN consume(add_message(h.w,
                 Msg("You consume, and recover HP!", consumer, it, h.recovered,
                     "health_recovered")), it)
        ELSE Raise(consume(h.w, it).w, "Impossible", "Your health is already full.")

\* HealingConsumable.activate
HealingConsumable_activate(w, consumer, it) ==
    LET h == heal(w, consumer, consumables[it].amount)
    IN  IF h.recovered > 0
        THEN consume(add_message(h.w,
                 Msg("You consume, and recover HP!", consumer, it, h.recovered,
                     "health_recovered")), it)
        ELSE Raise(h.w, "Impossible", "Your health is already full.")

\* Entity.distance squared: the code compares Euclidean distances, and
\* a < b iff a*a < b*b for distances
distance2(w, e, x, y) ==
    (x - w.actors[e].x) * (x - w.actors[e].x)
    + (y - w.actors[e].y) * (y - w.actors[e].y)

RECURSIVE LastClosestActor(_, _, _, _, _)
\* a loop that lets a later actor at the same distance win
LastClosestActor(w, consumer, order, target, closest2) ==
    IF order = <<>> THEN target
    ELSE LET actor == Head(order)
             d2 == distance2(w, consumer, w.actors[actor].x, w.actors[actor].y)
         IN  IF w.actors[actor].ai
                /\ actor # consumer
                /\ <<w.actors[actor].x, w.actors[actor].y>> \in w.visible
                /\ d2 <= closest2
             THEN LastClosestActor(w, consumer, Tail(order), actor, d2)
             ELSE LastClosestActor(w, consumer, Tail(order), target, closest2)

RECURSIVE ClosestActor(_, _, _, _, _)
\* the loop of LightningDamageConsumable.activate over game_map.actors:
\* closest2 is the square of closest_distance, or -1 when closest_distance <= 0
ClosestActor(w, consumer, order, target, closest2) ==
    IF order = <<>> THEN target
    ELSE LET actor == Head(order)
             d2 == distance2(w, consumer, w.actors[actor].x, w.actors[actor].y)
         IN  IF w.actors[actor].ai
                /\ actor # consumer
                /\ <<w.actors[actor].x, w.actors[actor].y>> \in w.visible
                /\ d2 < closest2
             THEN ClosestActor(w, consumer, Tail(order), actor, d2)
             ELSE ClosestActor(w, consumer, Tail(order), target, closest2)

\* LightningDamageConsumable.activate
LightningDamageConsumable_activate(w, consumer, it) ==
    LET r1 == consumables[it].maximum_range + 1
        target == ClosestActor(w, consumer, actor_order(w), NoOne,
                               IF r1 > 0 THEN r1 * r1 ELSE -1)
    IN  IF target # NoOne
        THEN consume(take_damage(
                 add_message(w, Msg("A lightning bolt strikes", target, it,
                                    consumables[it].amount, "white")),
                 target, consumables[it].amount), it)
        ELSE Raise(w, "Impossible", "No enemy is close enough to strike.")

\* Consumable.activate, by the class of the item's consumable
activate(w, consumer, it) ==
    IF consumables[it].kind = "Healing"
    THEN HealingConsumable_activate(w, consumer, it)
    ELSE LightningDamageConsumable_activate(w, consumer, it)

----------------------------------------------------------------------------
(* actions.py *)

NoItem == "noitem"

Act(type, entity, dx, dy, item) ==
    [type |-> type, entity |-> entity, dx |-> dx, dy |-> dy, item |-> item,
     amount |-> 0]

\* a direct call of a Fighter method
Call(type, entity, amount) ==
    [type |-> type, entity |-> entity, dx |-> 0, dy |-> 0, item |-> NoItem,
     amount |-> amount]

NoAction == Act("None", NoOne, 0, 0, NoItem)

\* ExitAction.perform
ExitAction_perform(w) == Raise(w, "SystemExit", "")

\* ItemAction.perform
ItemAction_perform(w, e, it) ==
    LET r == activate(w, e, it)
    IN  IF r.outcome = "None" THEN Return(r.w, "True") ELSE r

\* WaitAction.perform
WaitAction_perform(w) == Return(w, "True")

RECURSIVE LastItemAt(_, _, _, _)
\* the last item of the map's collection lying at (x, y)
LastItemAt(w, ents, x, y) ==
    IF ents = <<>> THEN NoItem
    ELSE IF w.items[ents[Len(ents)]].x = x /\ w.items[ents[Len(ents)]].y = y
         THEN ents[Len(ents)]
         ELSE LastItemAt(w, SubSeq(ents, 1, Len(ents) - 1), x, y)

RECURSIVE FirstItemAt(_, _, _, _)
\* the first item of the map's collection lying at (x, y)
FirstItemAt(w, ents, x, y) ==
    IF ents = <<>> THEN NoItem
    ELSE IF w.items[Head(ents)].x = x /\ w.items[Head(ents)].y = y
         THEN Head(ents)
         ELSE FirstItemAt(w, Tail(ents), x, y)

\* a pickup that reports a full inventory whoever picks up
PickupAction_perform_full_for_all(w, e) ==
    LET it == FirstItemAt(w, w.entities, w.actors[e].x, w.actors[e].y)
    IN  IF it = NoItem
        THEN Raise(w, "Impossible", "There is nothing here to pick up.")
        ELSE IF Len(w.actors[e].items) >= w.actors[e].capacity
        THEN Raise(w, "Impossible", "Your inventory is full.")
        ELSE LET w1 == [w EXCEPT !.entities = RemoveFirst(@, it),
                                 !.items[it].parent = e,
                                 !.actors[e].items = Append(@, it)]
             IN  Return(IF e = Player
                        THEN add_message(w1,
                                 Msg("You picked up the", e, it, 0, "white"))
                        ELSE w1,
                        "None")

\* a pickup that reports a turn taken when it succeeds
PickupAction_perform_takes_turn(w, e) ==
    LET it == FirstItemAt(w, w.entities, w.actors[e].x, w.actors[e].y)
    IN  IF it = NoItem
        THEN Raise(w, "Impossible", "There is nothing here to pick up.")
        ELSE IF Len(w.actors[e].items) >= w.actors[e].capacity
        THEN IF e = Player
             THEN Raise(w, "Impossible", "Your inventory is full.")
             ELSE Return(w, "None")
        ELSE LET w1 == [w EXCEPT !.entities = RemoveFirst(@, it),
                                 !.items[it].parent = e,
                                 !.actors[e].items = Append(@, it)]
             IN  Return(IF e = Player
                        THEN add_message(w1,
                                 Msg("You picked up the", e, it, 0, "white"))
                        ELSE w1,
                        "True")

\* a pickup into an inventory of any length
PickupAction_perform_unlimited(w, e) ==
    LET it == FirstItemAt(w, w.entities, w.actors[e].x, w.actors[e].y)
    IN  IF it = NoItem
        THEN Raise(w, "Impossible", "There is nothing here to pick up.")
        ELSE LET w1 == [w EXCEPT !.entities = RemoveFirst(@, it),
                                 !.items[it].parent = e,
                                 !.actors[e].items = Append(@, it)]
             IN  Return(IF e = Player
                        THEN add_message(w1,
                                 Msg("You picked up the", e, it, 0, "white"))
                        ELSE w1,
                        "None")

\* a pickup that leaves the item in the map's collection
PickupAction_perform_copies(w, e) ==
    LET it == FirstItemAt(w, w.entities, w.actors[e].x, w.actors[e].y)
    IN  IF it = NoItem
        THEN Raise(w, "Impossible", "There is nothing here to pick up.")
        ELSE IF Len(w.actors[e].items) >= w.actors[e].capacity
        THEN IF e = Player
             THEN Raise(w, "Impossible", "Your inventory is full.")
             ELSE Return(w, "None")
        ELSE LET w1 == [w EXCEPT !.items[it].parent = e,
                                 !.actors[e].items = Append(@, it)]
             IN  Return(IF e = Player
                        THEN add_message(w1,
                                 Msg("You picked up the", e, it, 0, "white"))
                        ELSE w1,
                        "None")

\* PickupAction.perform
PickupAction_perform(w, e) ==
    LET it == FirstItemAt(w, w.entities, w.actors[e].x, w.actors[e].y)
    IN  IF it = NoItem
        THEN Raise(w, "Impossible", "There is nothing here to pick up.")
        ELSE IF Len(w.actors[e].items) >= w.actors[e].capacity
        THEN IF e = Player
             THEN Raise(w, "Impossible", "Your inventory is full.")
             ELSE Return(w, "None")
        ELSE LET w1 == [w EXCEPT !.entities = RemoveFirst(@, it),
                                 !.items[it].parent = e,
                                 !.actors[e].items = Append(@, it)]
             IN  Return(IF e = Player
                        THEN add_message(w1,
                                 Msg("You picked up the", e, it, 0, "white"))
                        ELSE w1,
                        "None")

\* ActionWithDirection.dest_xy
dest_x(w, e, dx) == w.actors[e].x + dx
dest_y(w, e, dy) == w.actors[e].y + dy

\* ActionWithDirection.blocking_entity
blocking_entity(w, e, dx, dy) ==
    get_blocking_entity_at_location(w, dest_x(w, e, dx), dest_y(w, e, dy))

\* ActionWithDirection.target_actor
target_actor(w, e, dx, dy) ==
    get_actor_at_location(w, dest_x(w, e, dx), dest_y(w, e, dy))

\* a melee attack that applies its damage whatever its sign
MeleeAction_perform_any_damage(w, e, dx, dy) ==
    LET target == target_actor(w, e, dx, dy)
        damage == power[e] - defense[target]
        attack_color == IF e = Player THEN "player_atk" ELSE "enemy_atk"
    IN  IF target = NoOne
        THEN Raise(w, "Impossible", "No entity to attack.")
        ELSE Return(set_hp(add_message(w,
                        Msg("attacks for hit points.", e, target, damage,
                            attack_color)),
                        target, w.actors[target].hp - damage),
                    "True")

\* MeleeAction.perform
MeleeAction_perform(w, e, dx, dy) ==
    LET target == target_actor(w, e, dx, dy)
        damage == power[e] - defense[target]
        attack_color == IF e = Player THEN "player_atk" ELSE "enemy_atk"
    IN  IF target = NoOne
        THEN Raise(w, "Impossible", "No entity to attack.")
        ELSE IF damage > 0
        THEN Return(set_hp(add_message(w,
                        Msg("attacks for hit points.", e, target, damage,
                            attack_color)),
                        target, w.actors[target].hp - damage),
                    "True")
        ELSE Return(add_message(w,
                        Msg("attacks but does no damage.", e, target, 0,
                            attack_color)),
                    "True")

\* a movement that does not look for a blocking entity
MovementAction_perform_through_entities(w, e, dx, dy) ==
    IF ~in_bounds(dest_x(w, e, dx), dest_y(w, e, dy))
    THEN Raise(w, "Impossible", "Destination is out of bounds.")
    ELSE IF ~walkable(dest_x(w, e, dx), dest_y(w, e, dy))
    THEN Raise(w, "Impossible", "Destination is blocked by a tile.")
    ELSE Return(move(w, e, dx, dy), "True")

\* MovementAction.perform
MovementAction_perform(w, e, dx, dy) ==
    IF ~in_bounds(dest_x(w, e, dx), dest_y(w, e, dy))
    THEN Raise(w, "Impossible", "Destination is out of bounds.")
    ELSE IF ~walkable(dest_x(w, e, dx), dest_y(w, e, dy))
    THEN Raise(w, "Impossible", "Destination is blocked by a tile.")
    ELSE IF blocking_entity(w, e, dx, dy) # NoOne
    THEN Raise(w, "Impossible", "Destination is blocked by an entity.")
    ELSE Return(move(w, e, dx, dy), "True")

\* a bump that always moves
BumpAction_perform_always_moves(w, e, dx, dy) == MovementAction_perform(w, e, dx, dy)

\* BumpAction.perform
BumpAction_perform(w, e, dx, dy) ==
    IF target_actor(w, e, dx, dy) # NoOne
    THEN MeleeAction_perform(w, e, dx, dy)
    ELSE MovementAction_perform(w, e, dx, dy)

\* DropAction.perform (imported by input_handlers.py, not defined in actions.py)
DropAction_perform(w, e, it) == drop(w, e, it)

\* Action.perform, by the class of the action
perform(w, a) ==
    CASE a.type = "ExitAction" -> ExitAction_perform(w)
      [] a.type = "WaitAction" -> WaitAction_perform(w)
      [] a.type = "BumpAction" -> BumpAction_perform(w, a.entity, a.dx, a.dy)
      [] a.type = "MeleeAction" -> MeleeAction_perform(w, a.entity, a.dx, a.dy)
      [] a.type = "MovementAction" ->
             MovementAction_perform(w, a.entity, a.dx, a.dy)
      [] a.type = "PickupAction" -> PickupAction_perform(w, a.entity)
      [] a.type = "ItemAction" -> ItemAction_perform(w, a.entity, a.item)
      [] a.type = "DropAction" -> DropAction_perform(w, a.entity, a.item)

----------------------------------------------------------------------------
(* engine.py and the AI components (outside src/): the enemy-turn sweep and
   the field of view *)

FovRadius == 1

Tiles == (0..(GameMapWidth - 1)) \X (0..(GameMapHeight - 1))

Abs(n) == IF n < 0 THEN -n ELSE n
Sgn(n) == IF n < 0 THEN -1 ELSE IF n > 0 THEN 1 ELSE 0

\* the field of view computed for the player: the tiles within FovRadius
fov(w) ==
    {t \in Tiles : Abs(t[1] - w.actors[Player].x) <= FovRadius
                   /\ Abs(t[2] - w.actors[Player].y) <= FovRadius}

\* Engine.update_fov
update_fov(w) ==
    [w EXCEPT !.visible = fov(w), !.calls = Append(@, "update_fov")]

\* what a monster's AI may decide on its turn: wait, or attack towards the
\* player
AIChoices == {"wait", "attack"}

\* the action of monster m for the decision c, taken when its turn comes
ai_action(w, m, c) ==
    LET dx == Sgn(w.actors[Player].x - w.actors[m].x)
        dy == Sgn(w.actors[Player].y - w.actors[m].y)
    IN  IF c = "attack" /\ <<dx, dy>> # <<0, 0>>
        THEN Act("MeleeAction", m, dx, dy, NoItem)
        ELSE Act("WaitAction", m, 0, 0, NoItem)

RECURSIVE EnemyTurns(_, _, _)
\* every living monster, in map order, performs the action its AI decided;
\* an Impossible it raises is ignored
EnemyTurns(w, order, ai) ==
    IF order = <<>> THEN w
    ELSE IF Head(order) # Player /\ w.actors[Head(order)].ai
         THEN EnemyTurns(perform(w, ai_action(w, Head(order), ai[Head(order)])).w,
                         Tail(order), ai)
         ELSE EnemyTurns(w, Tail(order), ai)

\* Engine.handle_enemy_turns
handle_enemy_turns(w, ai) ==
    EnemyTurns([w EXCEPT !.calls = Append(@, "handle_enemy_turns")],
               actor_order(w), ai)

----------------------------------------------------------------------------
(* input_handlers.py *)

K_a == 97
K_b == 98
K_d == 100
K_g == 103
K_i == 105
K_PERIOD == 46
K_ESCAPE == 27
K_RIGHT == 1073741903
K_LEFT == 1073741904
K_DOWN == 1073741905
K_UP == 1073741906
K_HOME == 1073741898
K_PAGEUP == 1073741899
K_PAGEDOWN == 1073741902
K_LSHIFT == 1073742049
K_END == 1073741901
K_SLASH == 47
K_RETURN == 13
KMOD_LSHIFT == 1

\* the keys of MOVE_KEYS that the model's keyboard has
MoveKeys == {K_UP, K_DOWN, K_LEFT, K_RIGHT, K_HOME, K_END, K_PAGEUP, K_PAGEDOWN,
             K_b}

\* MOVE_KEYS[key]
MOVE_KEYS(key) ==
    CASE key = K_UP -> <<0, -1>>
      [] key = K_DOWN -> <<0, 1>>
      [] key = K_LEFT -> <<-1, 0>>
      [] key = K_RIGHT -> <<1, 0>>
      [] key = K_HOME -> <<-1, -1>>
      [] key = K_PAGEUP -> <<1, -1>>
      [] key = K_PAGEDOWN -> <<1, 1>>
      [] key = K_b -> <<-1, 1>>
      [] key = K_END -> <<-1, 1>>

WAIT_KEYS == {K_PERIOD}

MODIFIER_KEYS == {K_LSHIFT}

CONFIRM_KEYS == {K_RETURN}

\* a turn driver that refreshes the field of view before the enemy turns
after_perform_fov_first(r, a, ai) ==
    [w |-> IF r.outcome = "Impossible"
           THEN add_message(r.w, Msg(r.msg, NoOne, NoOne, 0, "impossible"))
           ELSE IF r.outcome \in {"SystemExit", "ValueError"}
           THEN [r.w EXCEPT !.running = FALSE]
           ELSE IF r.outcome = "True"
           THEN handle_enemy_turns(update_fov(r.w), ai)
           ELSE r.w,
     outcome |-> r.outcome,
     msg |-> r.msg,
     action |-> a,
     value |-> IF r.outcome \in {"SystemExit", "ValueError"} THEN "Raised"
               ELSE "None"]

\* a turn driver that intercepts every exception
after_perform_catch_all(r, a, ai) ==
    [w |-> IF r.outcome \in {"Impossible", "SystemExit", "ValueError"}
           THEN add_message(r.w, Msg(r.msg, NoOne, NoOne, 0, "impossible"))
           ELSE IF r.outcome = "True"
           THEN update_fov(handle_enemy_turns(r.w, ai))
           ELSE r.w,
     outcome |-> r.outcome,
     msg |-> r.msg,
     action |-> a,
     value |-> IF r.outcome \in {"SystemExit", "ValueError"} THEN "Raised"
               ELSE "None"]

\* EventHandler.handle_action, from the point where perform has ended as r:
\* log a recoverable failure; on a true return run the enemy turns and then
\* the field of view; anything else raised leaves the handler
after_perform(r, a, ai) ==
    [w |-> IF r.outcome = "Impossible"
           THEN add_message(r.w, Msg(r.msg, NoOne, NoOne, 0, "impossible"))
           ELSE IF r.outcome \in {"SystemExit", "ValueError"}
           THEN [r.w EXCEPT !.running = FALSE]
           ELSE IF r.outcome = "True"
           THEN update_fov(handle_enemy_turns(r.w, ai))
           ELSE r.w,
     outcome |-> r.outcome,
     msg |-> r.msg,
     action |-> a,
     value |-> IF r.outcome \in {"SystemExit", "ValueError"} THEN "Raised"
               ELSE "None"]

\* EventHandler.handle_action
EventHandler_handle_action(w, a, ai) ==
    after_perform(IF a.type = "None" THEN Return(w, "NoAction") ELSE perform(w, a),
                  a, ai)

\* AskUserEventHandler.handle_action, from the point where the call of
\* super().handle_action has ended as r
after_super(r) ==
    IF r.value = "Raised" THEN r
    ELSE IF r.value = "True"
    THEN [r EXCEPT !.w.handler = "MainGame", !.value = "True"]
    ELSE [r EXCEPT !.value = "False"]

\* AskUserEventHandler.handle_action
AskUserEventHandler_handle_action(w, a, ai) ==
    after_super(EventHandler_handle_action(w, a, ai))

\* the subclasses of SelectIndexHandler
SelectFamily == {"Look", "SingleRangedAttack", "AreaRangedAttack"}

\* the subclasses of AskUserEventHandler
AskUserFamily == {"InventoryActivate", "InventoryDrop"} \cup SelectFamily

\* an event's modifier mask, tile and button (events made without them have
\* no modifier held, and the first tile and the left button)
Mod(ev) == IF "mod" \in DOMAIN ev THEN ev.mod ELSE 0
TileOf(ev) == IF "tile" \in DOMAIN ev THEN ev.tile ELSE <<0, 0>>
Button(ev) == IF "button" \in DOMAIN ev THEN ev.button ELSE 1

Dispatched(w, a) == [w |-> w, action |-> a]

\* an exit that leaves the handler active
on_exit_keeps_handler(w) == Dispatched(w, NoAction)

\* AskUserEventHandler.on_exit
on_exit(w) == Dispatched([w EXCEPT !.handler = "MainGame"], NoAction)

\* AskUserEventHandler.ev_keydown
AskUserEventHandler_ev_keydown(w, key) ==
    IF key \in MODIFIER_KEYS THEN Dispatched(w, NoAction) ELSE on_exit(w)

\* a selection that leaves the menu open
on_item_selected_keeps_menu(w, it) ==
    Dispatched(w, IF w.handler = "InventoryActivate"
                  THEN Act("ItemAction", Player, 0, 0, it)
                  ELSE Act("DropAction", Player, 0, 0, it))

\* InventoryActivateHandler.on_item_selected, InventoryDropHandler.on_item_selected
on_item_selected(w, it) ==
    Dispatched([w EXCEPT !.handler = "MainGame"],
               IF w.handler = "InventoryActivate"
               THEN Act("ItemAction", Player, 0, 0, it)
               ELSE Act("DropAction", Player, 0, 0, it))

\* InventoryEventHandler.ev_keydown
InventoryEventHandler_ev_keydown(w, key) ==
    LET index == key - K_a
    IN  IF 0 <= index /\ index <= 26
        THEN IF index + 1 <= Len(w.actors[Player].items)
             THEN on_item_selected(w, w.actors[Player].items[index + 1])
             ELSE Dispatched(add_message(w,
                      Msg("Invalid entry.", NoOne, NoOne, 0, "invalid")), NoAction)
        ELSE AskUserEventHandler_ev_keydown(w, key)

\* SelectIndexHandler.__init__
SelectIndexHandler_init(w) ==
    [w EXCEPT !.mouse_location = <<w.actors[Player].x, w.actors[Player].y>>]

\* LookHandler.on_index_selected, SingleRangedAttackHandler.on_index_selected,
\* AreaRangedAttackHandler.on_index_selected
on_index_selected(w, x, y) ==
    Dispatched([w EXCEPT !.handler = "MainGame"],
               IF w.handler = "Look" THEN NoAction ELSE callback)

\* the speed of the cursor in SelectIndexHandler.ev_keydown: each of the three
\* tests is of a mask that is never zero, so all three factors apply as soon
\* as any modifier is held
Multiplier(mod) == IF mod # 0 THEN 1 * 5 * 10 * 20 ELSE 1

\* a cursor that moves without regard to the edges of the map
SelectIndexHandler_ev_keydown_unclamped(w, key, mod) ==
    IF key \in MoveKeys
    THEN Dispatched(
            [w EXCEPT !.mouse_location =
                <<w.mouse_location[1] + MOVE_KEYS(key)[1] * Multiplier(mod),
                  w.mouse_location[2] + MOVE_KEYS(key)[2] * Multiplier(mod)>>],
            NoAction)
    ELSE IF key \in CONFIRM_KEYS
    THEN on_index_selected(w, w.mouse_location[1], w.mouse_location[2])
    ELSE AskUserEventHandler_ev_keydown(w, key)

\* SelectIndexHandler.ev_keydown
SelectIndexHandler_ev_keydown(w, key, mod) ==
    IF key \in MoveKeys
    THEN Dispatched(
            [w EXCEPT !.mouse_location =
                <<clamp(w.mouse_location[1] + MOVE_KEYS(key)[1] * Multiplier(mod),
                        0, GameMapWidth - 1),
                  clamp(w.mouse_location[2] + MOVE_KEYS(key)[2] * Multiplier(mod),
                        0, GameMapHeight - 1)>>],
            NoAction)
    ELSE IF key \in CONFIRM_KEYS
    THEN on_index_selected(w, w.mouse_location[1], w.mouse_location[2])
    ELSE AskUserEventHandler_ev_keydown(w, key)

\* SelectIndexHandler.ev_mousebuttondown
SelectIndexHandler_ev_mousebuttondown(w, tile, button) ==
    IF in_bounds(tile[1], tile[2]) /\ button = 1
    THEN on_index_selected(w, tile[1], tile[2])
    ELSE on_exit(w)

\* MainGameEventHandler.ev_keydown
MainGameEventHandler_ev_keydown(w, key) ==
    IF key \in MoveKeys
    THEN Dispatched(w, Act("BumpAction", Player, MOVE_KEYS(key)[1],
                           MOVE_KEYS(key)[2], NoItem))
    ELSE IF key \in WAIT_KEYS
    THEN Dispatched(w, Act("WaitAction", Player, 0, 0, NoItem))
    ELSE IF key = K_ESCAPE
    THEN Dispatched(w, Act("ExitAction", NoOne, 0, 0, NoItem))
    ELSE IF key = K_g
    THEN Dispatched(w, Act("PickupAction", Player, 0, 0, NoItem))
    ELSE IF key = K_i
    THEN Dispatched([w EXCEPT !.handler = "InventoryActivate"], NoAction)
    ELSE IF key = K_d
    THEN Dispatched([w EXCEPT !.handler = "InventoryDrop"], NoAction)
    ELSE IF key = K_SLASH
    THEN Dispatched(SelectIndexHandler_init([w EXCEPT !.handler = "Look"]),
                    NoAction)
    ELSE Dispatched(w, NoAction)

CursorKeys == {K_UP, K_DOWN, K_PAGEUP, K_PAGEDOWN}

\* CURSOR_Y_KEYS[key]
CURSOR_Y_KEYS(key) ==
    CASE key = K_UP -> -1
      [] key = K_DOWN -> 1
      [] key = K_PAGEUP -> -10
      [] key = K_PAGEDOWN -> 10

\* HistoryViewer.__init__ on a message log of n messages
HistoryViewer_init(w, n) ==
    [w EXCEPT !.handler = "HistoryViewer",
              !.viewer = [log_length |-> n, cursor |-> n - 1]]

\* HistoryViewer.ev_keydown
HistoryViewer_ev_keydown(w, key) ==
    LET cursor == w.viewer.cursor
        log_length == w.viewer.log_length
    IN  IF key \in CursorKeys
        THEN IF CURSOR_Y_KEYS(key) < 0 /\ cursor = 0
             THEN Dispatched([w EXCEPT !.viewer.cursor = log_length - 1], NoAction)
             ELSE IF CURSOR_Y_KEYS(key) > 0 /\ cursor = log_length - 1
             THEN Dispatched([w EXCEPT !.viewer.cursor = 0], NoAction)
             ELSE Dispatched([w EXCEPT !.viewer.cursor =
                                 clamp(0, cursor + CURSOR_Y_KEYS(key),
                                       log_length - 1)],
                             NoAction)
        ELSE IF key = K_HOME
        THEN Dispatched([w EXCEPT !.viewer.cursor = 0], NoAction)
        ELSE IF key = K_END
        THEN Dispatched([w EXCEPT !.viewer.cursor = log_length - 1], NoAction)
        ELSE Dispatched([w EXCEPT !.handler = "MainGame"], NoAction)

\* GameOverEventHandler.ev_keydown
GameOverEventHandler_ev_keydown(w, key) ==
    IF key = K_ESCAPE
    THEN Dispatched(w, Act("ExitAction", NoOne, 0, 0, NoItem))
    ELSE Dispatched(w, NoAction)

\* EventHandler.ev_quit
ev_quit(w) == Dispatched(w, Act("ExitAction", NoOne, 0, 0, NoItem))

\* EventHandler.ev_mousemotion
ev_mousemotion(w, tile) ==
    Dispatched(IF in_bounds(tile[1], tile[2])
               THEN [w EXCEPT !.mouse_location = tile] ELSE w,
               NoAction)

\* EventDispatch.dispatch, by the class of the active handler
dispatch(w, ev) ==
    CASE ev.type = "quit" -> ev_quit(w)
      [] ev.type = "mousemotion" -> ev_mousemotion(w, ev.tile)
      [] ev.type = "keydown" ->
            IF w.handler = "MainGame" THEN MainGameEventHandler_ev_keydown(w, ev.sym)
            ELSE IF w.handler = "GameOver"
            THEN GameOverEventHandler_ev_keydown(w, ev.sym)
            ELSE IF w.handler = "HistoryViewer"
            THEN HistoryViewer_ev_keydown(w, ev.sym)
            ELSE IF w.handler \in SelectFamily
            THEN SelectIndexHandler_ev_keydown(w, ev.sym, Mod(ev))
            ELSE InventoryEventHandler_ev_keydown(w, ev.sym)
      [] ev.type = "mousebuttondown" ->
            IF w.handler \in SelectFamily
            THEN SelectIndexHandler_ev_mousebuttondown(w, TileOf(ev), Button(ev))
            ELSE IF w.handler \in AskUserFamily THEN on_exit(w)
            ELSE Dispatched(w, NoAction)

\* EventHandler.handle_events, from the point where dispatch has returned d:
\* the handler that received the event handles the action
handle_dispatched(self, d, ai) ==
    IF self \in AskUserFamily
    THEN AskUserEventHandler_handle_action(d.w, d.action, ai)
    ELSE EventHandler_handle_action(d.w, d.action, ai)

\* EventHandler.handle_events
handle_events(w, ev, ai) == handle_dispatched(w.handler, dispatch(w, ev), ai)

----------------------------------------------------------------------------
(* The state machine.  The main loop (main.py, outside src/) hands one event
   at a time to the active handler; log, calls, event, action and outcome
   hold what the event just handled did, and are cleared when the loop comes
   round for the next event. *)

World ==
    [actors |-> actors, items |-> items, entities |-> entities,
     handler |-> handler, running |-> running, log |-> <<>>, calls |-> <<>>,
     visible |-> visible, mouse_location |-> mouse_location, viewer |-> viewer]

NoEvent == [type |-> "none", sym |-> 0]

Waiting == running /\ event = NoEvent

\* the state after a call that ended as r, made for the event ev
Becomes(r, ev) ==
    /\ actors' = r.w.actors
    /\ items' = r.w.items
    /\ entities' = r.w.entities
    /\ handler' = r.w.handler
    /\ running' = r.w.running
    /\ log' = r.w.log
    /\ calls' = r.w.calls
    /\ visible' = r.w.visible
    /\ mouse_location' = r.w.mouse_location
    /\ viewer' = r.w.viewer
    /\ reported' = r.value
    /\ event' = ev
    /\ action' = r.action
    /\ outcome' = r.outcome
    /\ raised' = r.msg
    /\ UNCHANGED <<consumables, clamp_prefers, callback>>

\* the main loop comes round: the next event is awaited
NextEvent ==
    /\ running
    /\ event # NoEvent
    /\ event' = NoEvent
    /\ action' = NoAction
    /\ outcome' = "NoAction"
    /\ raised' = ""
    /\ reported' = "None"
    /\ log' = <<>>
    /\ calls' = <<>>
    /\ UNCHANGED <<actors, items, entities, handler, running, visible,
                   mouse_location, viewer, consumables, clamp_prefers,
                   callback>>

MonsterIds == DOMAIN actors \ {Player}

AIPlans == [MonsterIds -> AIChoices]

IdlePlan == [m \in MonsterIds |-> "wait"]

\* the AI plans that can matter for an event: all of them when the event's
\* action advances the turn, one otherwise (the sweep does not run)
PlansFor(ev) ==
    IF handle_events(World, ev, IdlePlan).outcome = "True" THEN AIPlans
    ELSE {IdlePlan}

Handle(ev) ==
    /\ Waiting
    /\ \E ai \in PlansFor(ev) : Becomes(handle_events(World, ev, ai), ev)

Keys == {K_a, K_b, K_d, K_g, K_i, K_PERIOD, K_ESCAPE, K_RIGHT, K_LEFT, K_DOWN,
         K_UP, K_HOME, K_PAGEUP, K_PAGEDOWN, K_LSHIFT}

KeyDown == \E sym \in Keys : Handle([type |-> "keydown", sym |-> sym])
Quit == Handle([type |-> "quit", sym |-> 0])
MouseButtonDown == Handle([type |-> "mousebuttondown", sym |-> 0])

Next == KeyDown \/ Quit \/ MouseButtonDown \/ NextEvent

Actor(x, y, hp, cap) ==
    [x |-> x, y |-> y, hp |-> hp, ai |-> TRUE, blocks_movement |-> TRUE,
     remains |-> 0, items |-> <<>>, capacity |-> cap]

\* no history viewer has been opened
NoViewer == [log_length |-> 0, cursor |-> 0]

\* what every game starts with: the main handler, nothing logged
InitEngine ==
    /\ handler = "MainGame"
    /\ running = TRUE
    /\ log = <<>>
    /\ calls = <<>>
    /\ visible = fov([actors |-> actors])
    /\ event = NoEvent
    /\ action = NoAction
    /\ outcome = "NoAction"
    /\ raised = ""
    /\ reported = "None"
    /\ mouse_location = <<0, 0>>
    /\ viewer = NoViewer
    /\ clamp_prefers = "lo"
    /\ callback = NoAction

TwoItems ==
    /\ items = (Potion :> [x |-> 1, y |-> 0, parent |-> GameMap])
                @@ (Scroll :> [x |-> 0, y |-> 0, parent |-> GameMap])
    /\ entities = <<Potion, Scroll>>
    /\ consumables = (Potion :> [kind |-> "Healing", amount |-> 1, maximum_range |-> 0])
                      @@ (Scroll :> [kind |-> "Lightning", amount |-> 2,
                                     maximum_range |-> 1])

\* a level with the player, a troll and two items on the floor
Init ==
    /\ actors = (Player :> Actor(0, 0, PlayerMaxHp, MaxCapacity))
                 @@ (Troll :> Actor(2, 0, TrollMaxHp, 0))
    /\ TwoItems
    /\ InitEngine

\* the game: every input event, handled by the active handler
Spec == Init /\ [][Next]_vars

----------------------------------------------------------------------------
(* The components called directly: any living actor performs any action, and
   any fighter is damaged or healed by any amount *)

DirectCall == [type |-> "call", sym |-> 0]

\* the outcome of action a performed in w, with the action
WithAction(r, a) ==
    [w |-> r.w, outcome |-> r.outcome, msg |-> r.msg, action |-> a,
     value |-> "None"]
Performed(w, a) == WithAction(perform(w, a), a)
Called(w, a) ==
    [w |-> w, outcome |-> "None", msg |-> "", action |-> a, value |-> "None"]

Directed(type, f, d) ==
    /\ Waiting
    /\ actors[f].ai
    /\ Becomes(Performed(World, Act(type, f, d[1], d[2], NoItem)), DirectCall)

Dirs == {d \in (-1..1) \X (-1..1) : d # <<0, 0>>}

Movement == \E f \in DOMAIN actors, d \in Dirs : Directed("MovementAction", f, d)
Melee == \E f \in DOMAIN actors, d \in Dirs : Directed("MeleeAction", f, d)
Bump == \E f \in DOMAIN actors, d \in Dirs : Directed("BumpAction", f, d)

Amounts == (-1)..MaxAmount

TakeDamage ==
    \E f \in DOMAIN actors, n \in Amounts :
        /\ Waiting
        /\ Becomes(Called(take_damage(World, f, n), Call("take_damage", f, n)),
                   DirectCall)

Heal ==
    \E f \in DOMAIN actors, n \in Amounts :
        /\ Waiting
        /\ Becomes(Called(heal(World, f, n).w, Call("heal", f, n)), DirectCall)

\* the fighters where they stand: melee, damage and healing
NextFight == Melee \/ TakeDamage \/ Heal \/ NextEvent

\* a level with no items where the player, an orc and a troll stand next to
\* each other
InitFight ==
    /\ actors = (Player :> Actor(0, 0, PlayerMaxHp, 1))
                 @@ (Orc :> Actor(1, 0, OrcMaxHp, 1))
                 @@ (Troll :> Actor(0, 1, TrollMaxHp, 0))
    /\ items = << >>
    /\ entities = << >>
    /\ consumables = << >>
    /\ InitEngine

SpecFight == InitFight /\ [][NextFight]_vars

\* the actions with a direction, performed by any living actor
NextMove == Movement \/ Bump \/ Melee \/ NextEvent

\* a level with no items where the three actors stand apart
InitMove ==
    /\ actors = (Player :> Actor(0, 0, PlayerMaxHp, 1))
                 @@ (Orc :> Actor(1, 0, OrcMaxHp, 1))
                 @@ (Troll :> Actor(2, 1, TrollMaxHp, 0))
    /\ items = << >>
    /\ entities = << >>
    /\ consumables = << >>
    /\ InitEngine

SpecMove == InitMove /\ [][NextMove]_vars

Pickup ==
    \E f \in DOMAIN actors :
        /\ Waiting
        /\ actors[f].ai
        /\ Becomes(Performed(World, Act("PickupAction", f, 0, 0, NoItem)), DirectCall)

Drop ==
    \E f \in DOMAIN actors, it \in DOMAIN items :
        /\ Waiting
        /\ actors[f].ai
        /\ Contains(actors[f].items, it)
        /\ Becomes(Performed(World, Act("DropAction", f, 0, 0, it)), DirectCall)

\* the player drops an item and at once picks up where it stands
DropThenPickup ==
    \E it \in DOMAIN items :
        /\ Waiting
        /\ actors[Player].ai
        /\ Contains(actors[Player].items, it)
        /\ Becomes(WithAction(
                       PickupAction_perform(
                           DropAction_perform(World, Player, it).w, Player),
                       Act("DropThenPickup", Player, 0, 0, it)),
                   DirectCall)

NextItems == Movement \/ Pickup \/ Drop \/ DropThenPickup \/ NextEvent

\* a level with the player, an orc and two items on the floor; the player's
\* inventory holds one item or two
InitItems ==
    /\ \E c \in 1..MaxCapacity :
          actors = (Player :> Actor(0, 0, PlayerMaxHp, c))
                   @@ (Orc :> Actor(1, 0, OrcMaxHp, 1))
    /\ TwoItems
    /\ InitEngine

SpecItems == InitItems /\ [][NextItems]_vars

HistoryKeys == {K_UP, K_DOWN, K_PAGEUP, K_PAGEDOWN, K_HOME, K_END, K_a}

\* a key pressed in the history viewer
HistoryKey ==
    \E sym \in HistoryKeys :
        /\ handler = "HistoryViewer"
        /\ handle_events(World, [type |-> "keydown", sym |-> sym],
                         IdlePlan).w.viewer.cursor <= MaxCursor
        /\ Handle([type |-> "keydown", sym |-> sym])

NextHistory == HistoryKey \/ NextEvent

\* the history viewer just opened on a log of one message or more
InitHistory ==
    /\ actors = (Player :> Actor(0, 0, PlayerMaxHp, 1))
    /\ items = << >>
    /\ entities = << >>
    /\ consumables = << >>
    /\ running = TRUE
    /\ log = <<>>
    /\ calls = <<>>
    /\ visible = fov([actors |-> actors])
    /\ event = NoEvent
    /\ action = NoAction
    /\ outcome = "NoAction"
    /\ raised = ""
    /\ reported = "None"
    /\ mouse_location = <<0, 0>>
    /\ clamp_prefers \in {"lo", "hi"}
    /\ callback = NoAction
    /\ \E n \in 1..MaxLog :
          /\ handler = HistoryViewer_init([handler |-> "MainGame",
                                           viewer |-> NoViewer], n).handler
          /\ viewer = HistoryViewer_init([handler |-> "MainGame",
                                          viewer |-> NoViewer], n).viewer

SpecHistory == InitHistory /\ [][NextHistory]_vars

----------------------------------------------------------------------------
(* The game with a pointer: the troll stands next to the player, who holds a
   potion and stands on a scroll *)

\* the tiles the pointer is moved to: two of the map and one beyond its edge
MouseTiles == {<<0, 0>>, <<GameMapWidth - 1, GameMapHeight - 1>>,
               <<GameMapWidth, 0>>}

\* (the fields of an event are written in the order in which TLC keeps the
\* fields of a record, so that no worker ever reorders them)
MouseMotion ==
    \E t \in MouseTiles : Handle([type |-> "mousemotion", tile |-> t, sym |-> 0])

NextOver == KeyDown \/ Quit \/ MouseButtonDown \/ MouseMotion \/ NextEvent

InitOver ==
    /\ actors = (Player :> [Actor(0, 0, PlayerMaxHp, MaxCapacity)
                              EXCEPT !.items = <<Potion>>])
                 @@ (Troll :> Actor(1, 0, TrollMaxHp, 0))
    /\ items = (Potion :> [x |-> 0, y |-> 0, parent |-> Player])
                @@ (Scroll :> [x |-> 0, y |-> 0, parent |-> GameMap])
    /\ entities = <<Scroll>>
    /\ consumables = (Potion :> [kind |-> "Healing", amount |-> 1, maximum_range |-> 0])
                      @@ (Scroll :> [kind |-> "Lightning", amount |-> 2,
                                     maximum_range |-> 1])
    /\ InitEngine

SpecOver == InitOver /\ [][NextOver]_vars

----------------------------------------------------------------------------
(* The game on a keyboard that also has the key after z *)

\* the key code that follows K_z
KeyAfterZ == K_a + 26

KeyDownAfterZ == Handle([type |-> "keydown", sym |-> KeyAfterZ])

NextKeys == KeyDown \/ KeyDownAfterZ \/ NextEvent

SpecKeys == Init /\ [][NextKeys]_vars

----------------------------------------------------------------------------
(* The game with the targeting handlers: the player, alone on the map and
   holding the potion, in the main game or aiming a ranged attack; keys come
   with a modifier mask and clicks with a tile and a button *)

SelectKeys == {K_SLASH, K_i, K_d, K_a, K_g, K_RETURN, K_LSHIFT, K_ESCAPE,
               K_PERIOD, K_RIGHT, K_LEFT, K_DOWN, K_UP}

Mods == {0, KMOD_LSHIFT}

Buttons == {1, 2}

\* what the callback of a ranged-attack handler returns: nothing, or an action
Callbacks == {NoAction, Act("WaitAction", Player, 0, 0, NoItem)}

KeyDownMod ==
    \E sym \in SelectKeys, mod \in Mods :
        Handle([type |-> "keydown", mod |-> mod, sym |-> sym])

Click ==
    \E t \in MouseTiles, b \in Buttons :
        Handle([type |-> "mousebuttondown", button |-> b, tile |-> t, sym |-> 0])

NextSelect == KeyDownMod \/ Click \/ MouseMotion \/ NextEvent

InitSelect ==
    /\ \E p \in Tiles \ Walls :
          actors = (Player :> [Actor(p[1], p[2], PlayerMaxHp, MaxCapacity)
                                 EXCEPT !.items = <<Potion>>])
    /\ items = (Potion :> [x |-> 0, y |-> 0, parent |-> Player])
    /\ entities = << >>
    /\ consumables = (Potion :> [kind |-> "Healing", amount |-> 1,
                                  maximum_range |-> 0])
    /\ handler \in {"MainGame", "SingleRangedAttack", "AreaRangedAttack"}
    /\ mouse_location =
          IF handler = "MainGame" THEN <<0, 0>>
          ELSE SelectIndexHandler_init([actors |-> actors,
                                        mouse_location |-> <<0, 0>>]).mouse_location
    /\ callback \in Callbacks
    /\ running = TRUE
    /\ log = <<>>
    /\ calls = <<>>
    /\ visible = fov([actors |-> actors])
    /\ event = NoEvent
    /\ action = NoAction
    /\ outcome = "NoAction"
    /\ raised = ""
    /\ reported = "None"
    /\ viewer = NoViewer
    /\ clamp_prefers = "lo"

SpecSelect == InitSelect /\ [][NextSelect]_vars

----------------------------------------------------------------------------
(* AskUserEventHandler.handle_action called directly: an inventory menu is
   open and handles any action of the player, or none *)

\* the actions handed to handle_action
AskActions ==
    {NoAction, Act("WaitAction", Player, 0, 0, NoItem),
     Act("PickupAction", Player, 0, 0, NoItem)}
    \cup {Act("BumpAction", Player, d[1], d[2], NoItem) : d \in Dirs}
    \cup {Act("ItemAction", Player, 0, 0, it) : it \in {Potion, Scroll}}

HandleAction ==
    \E a \in AskActions, ai \in AIPlans :
        /\ Waiting
        /\ handler \in AskUserFamily
        /\ Becomes(AskUserEventHandler_handle_action(World, a, ai), DirectCall)

NextAsk == HandleAction \/ NextEvent

InitAsk ==
    /\ actors = (Player :> [Actor(0, 0, PlayerMaxHp, MaxCapacity)
                              EXCEPT !.items = <<Potion>>])
                 @@ (Troll :> Actor(2, 0, TrollMaxHp, 0))
    /\ items = (Potion :> [x |-> 0, y |-> 0, parent |-> Player])
                @@ (Scroll :> [x |-> 0, y |-> 0, parent |-> GameMap])
    /\ entities = <<Scroll>>
    /\ consumables = (Potion :> [kind |-> "Healing", amount |-> 1, maximum_range |-> 0])
                      @@ (Scroll :> [kind |-> "Lightning", amount |-> 2,
                                     maximum_range |-> 1])
    /\ handler \in AskUserFamily
    /\ running = TRUE
    /\ log = <<>>
    /\ calls = <<>>
    /\ visible = fov([actors |-> actors])
    /\ event = NoEvent
    /\ action = NoAction
    /\ outcome = "NoAction"
    /\ raised = ""
    /\ reported = "None"
    /\ mouse_location = <<0, 0>>
    /\ viewer = NoViewer
    /\ clamp_prefers = "lo"
    /\ callback = NoAction

SpecAsk == InitAsk /\ [][NextAsk]_vars

\* a living actor uses an item it holds
Use ==
    \E f \in DOMAIN actors, it \in DOMAIN items :
        /\ Waiting
        /\ actors[f].ai
        /\ Contains(actors[f].items, it)
        /\ Becomes(Performed(World, Act("ItemAction", f, 0, 0, it)), DirectCall)

NextHeal == TakeDamage \/ Use \/ NextEvent

\* the items on the floor, taken, dropped and used by the player and the orc
NextOwn == Movement \/ Pickup \/ Drop \/ Use \/ NextEvent

SpecOwn == InitItems /\ [][NextOwn]_vars

\* the player and the troll, each holding a healing item of any amount
InitHeal ==
    /\ actors = (Player :> [Actor(0, 0, PlayerMaxHp, 1) EXCEPT !.items = <<Potion>>])
                 @@ (Troll :> [Actor(2, 0, TrollMaxHp, 1) EXCEPT !.items = <<Scroll>>])
    /\ items = (Potion :> [x |-> 0, y |-> 0, parent |-> Player])
                @@ (Scroll :> [x |-> 0, y |-> 0, parent |-> Troll])
    /\ entities = << >>
    /\ \E n \in Amounts, m \in Amounts :
          consumables = (Potion :> [kind |-> "Healing", amount |-> n,
                                    maximum_range |-> 0])
                        @@ (Scroll :> [kind |-> "Healing", amount |-> m,
                                       maximum_range |-> 0])
    /\ InitEngine

SpecHeal == InitHeal /\ [][NextHeal]_vars

Corpse(x, y) ==
    [x |-> x, y |-> y, hp |-> 0, ai |-> FALSE, blocks_movement |-> FALSE,
     remains |-> 1, items |-> <<>>, capacity |-> 0]

Floor == Tiles \ Walls

NextZap == Use \/ NextEvent

\* the three actors anywhere on the floor, no two on a tile, the orc and the
\* troll alive or dead; a living one holds a lightning scroll of any range
InitZap ==
    /\ \E p \in Floor :
       \E o \in Floor \ {p} :
       \E t \in Floor \ {p, o}, dead \in SUBSET {Orc, Troll} :
       \E holder \in ActorIds \ dead :
          /\ actors = [a \in ActorIds |->
                         LET at == IF a = Player THEN p
                                   ELSE IF a = Orc THEN o ELSE t
                         IN  IF a \in dead THEN Corpse(at[1], at[2])
                             ELSE [Actor(at[1], at[2], max_hp[a], 1) EXCEPT
                                     !.items = IF a = holder THEN <<Scroll>>
                                               ELSE <<>>]]
          /\ items = (Scroll :> [x |-> 0, y |-> 0, parent |-> holder])
    /\ entities = << >>
    /\ \E r \in 0..MaxRange :
          consumables = (Scroll :> [kind |-> "Lightning", amount |-> 2,
                                    maximum_range |-> r])
    /\ InitEngine

SpecZap == InitZap /\ [][NextZap]_vars

----------------------------------------------------------------------------
(* The turn driver (EventHandler.handle_action) *)

Handled == event.type \in {"keydown", "quit", "mousebuttondown"}

SweepThenFov == <<"handle_enemy_turns", "update_fov">>

InFov(t) ==
    /\ t[1] - actors[Player].x \in (-FovRadius)..FovRadius
    /\ t[2] - actors[Player].y \in (-FovRadius)..FovRadius

\* C1: when an event has been handled, the engine calls made for it are the
\* enemy-turn sweep followed by exactly one field-of-view refresh if the event
\* produced an action whose perform returned true, and none otherwise; after
\* such a turn the visible tiles are those in view of the player as the sweep
\* left it.
C1_SweepIffTrueThenFov ==
    Handled =>
        /\ calls = IF action.type # "None" /\ outcome = "True"
                   THEN SweepThenFov ELSE <<>>
        /\ calls # <<>> => \A t \in Tiles : t \in visible <=> InFov(t)

\* a turn in which the troll acted during the sweep
C1_TurnWithSweep ==
    /\ Handled
    /\ outcome = "True"
    /\ calls = SweepThenFov
    /\ \E i \in 1..Len(log) : log[i].who = Troll

\* C2: an Impossible raised by perform is intercepted: the event ends with
\* exactly one message in the log, carrying the exception's message in the
\* impossible colour, with no sweep and no field-of-view refresh, and the
\* handler goes on running.  A SystemExit, raised by the ExitAction that the
\* quit event and the escape key of the main and game-over handlers produce,
\* is not intercepted: nothing is logged and handle_events is left.
C2_OnlyImpossibleIntercepted ==
    [][/\ outcome' = "Impossible" =>
            /\ raised' # ""
            /\ log' = <<Msg(raised', NoOne, NoOne, 0, "impossible")>>
            /\ calls' = <<>>
            /\ visible' = visible
            /\ running'
       /\ outcome' = "SystemExit" =>
            /\ log' = <<>>
            /\ calls' = <<>>
            /\ ~running'
       /\ action'.type = "ExitAction" => outcome' = "SystemExit"
       /\ (Waiting /\ event'.type = "quit") => action'.type = "ExitAction"
       /\ (Waiting /\ event'.type = "keydown" /\ event'.sym = K_ESCAPE
             /\ handler \in {"MainGame", "GameOver"}) =>
            action'.type = "ExitAction"]_vars

\* a bump of the player into the wall or the edge of the map, refused
C2_ImpossibleLogged ==
    /\ Handled
    /\ action.type = "BumpAction"
    /\ outcome = "Impossible"
    /\ Len(log) = 1
    /\ log[1].color = "impossible"
    /\ running

----------------------------------------------------------------------------
(* Fighter (components/fighter.py) *)

\* C3: every fighter's hit points stay between 0 and its maximum, whatever
\* amounts, zero and negative ones included, it is damaged, healed or hit by.
C3_HpWithinBounds ==
    \A f \in DOMAIN actors : 0 <= actors[f].hp /\ actors[f].hp <= max_hp[f]

\* a fighter damaged by more than it can have, left at zero
C3_OverkillClamped ==
    /\ action.type = "take_damage"
    /\ action.amount > max_hp[action.entity]
    /\ actors[action.entity].hp = 0

\* C4: take_damage(d) with d >= hp on a fighter whose entity has an AI leaves
\* hp at 0 with the AI cleared and blocking disabled, and die has run once
\* more; die never runs for an entity without an AI, whatever the hit points
\* are set to, so it runs at most once per entity.
C4_DiesExactlyOnce ==
    [][\A f \in DOMAIN actors :
          /\ (action'.type = "take_damage" /\ action'.entity = f
                /\ actors[f].ai /\ action'.amount >= actors[f].hp) =>
                /\ actors'[f].hp = 0
                /\ ~actors'[f].ai
                /\ ~actors'[f].blocks_movement
                /\ actors'[f].remains = actors[f].remains + 1
          /\ ~actors[f].ai => actors'[f] = [actors[f] EXCEPT !.hp = actors'[f].hp]
          /\ actors'[f].remains <= 1]_vars

\* take_damage(0) on a fighter that is dead and at 0 already
C4_ZeroSetAgain ==
    /\ action.type = "take_damage"
    /\ action.amount = 0
    /\ actors[action.entity].hp = 0
    /\ actors[action.entity].remains = 1

----------------------------------------------------------------------------
(* The actions with a direction (actions.py) *)

At(g, x, y) == actors[g].x = x /\ actors[g].y = y

\* the living actors at the destination of the action being performed
TargetsOf(a) ==
    {g \in DOMAIN actors :
        actors[g].ai /\ At(g, actors[a.entity].x + a.dx, actors[a.entity].y + a.dy)}

Refused(reason) == outcome' = "Impossible" /\ raised' = reason /\ actors' = actors

\* C5: a MovementAction is refused as out of bounds if the destination is off
\* the map, else as blocked by a tile if the tile is a wall, else as blocked by
\* an entity if a blocking entity stands there, and then nobody has moved;
\* otherwise it returns true and the entity, and nothing else, has moved by
\* (dx, dy).
C5_MovementChecksInOrder ==
    [][action'.type = "MovementAction" =>
          LET f == action'.entity
              x == actors[f].x + action'.dx
              y == actors[f].y + action'.dy
          IN  IF ~(x \in 0..(GameMapWidth - 1) /\ y \in 0..(GameMapHeight - 1))
              THEN Refused("Destination is out of bounds.")
              ELSE IF <<x, y>> \in Walls
              THEN Refused("Destination is blocked by a tile.")
              ELSE IF \E g \in DOMAIN actors :
                          actors[g].blocks_movement /\ At(g, x, y)
              THEN Refused("Destination is blocked by an entity.")
              ELSE /\ outcome' = "True"
                   /\ actors' = [actors EXCEPT ![f].x = x, ![f].y = y]]_vars

\* a movement refused because of the entity standing at the destination
C5_BlockedByEntity ==
    /\ action.type = "MovementAction"
    /\ outcome = "Impossible"
    /\ raised = "Destination is blocked by an entity."

\* C6: a BumpAction towards a tile where a living actor stands ends as the
\* MeleeAction in that direction ends (hit points, messages, return value) and
\* leaves the bumping entity where it was; towards any other tile it ends as
\* the MovementAction ends.
C6_BumpIsMeleeOrMovement ==
    [][action'.type = "BumpAction" =>
          LET f == action'.entity
              r == IF TargetsOf(action') # {}
                   THEN MeleeAction_perform(World, f, action'.dx, action'.dy)
                   ELSE MovementAction_perform(World, f, action'.dx, action'.dy)
          IN  /\ actors' = r.w.actors
              /\ log' = r.w.log
              /\ handler' = r.w.handler
              /\ outcome' = r.outcome
              /\ raised' = r.msg
              /\ TargetsOf(action') # {} =>
                    /\ outcome' = "True"
                    /\ actors'[f].x = actors[f].x
                    /\ actors'[f].y = actors[f].y
                    /\ log' # <<>>
                    /\ log'[1].who = f
                    /\ log'[1].whom \in TargetsOf(action')]_vars

\* a bump that hit the actor standing at the destination
C6_BumpHit ==
    /\ action.type = "BumpAction"
    /\ outcome = "True"
    /\ log # <<>>
    /\ log[1].who = action.entity
    /\ log[1].text = "attacks for hit points."

\* C7: a MeleeAction towards a living actor returns true; with
\* damage = power - defense > 0 the target loses exactly damage hit points, but
\* not below 0, nobody else loses any, and the hit is logged with the amount;
\* with damage <= 0 nothing changes but the log, which gets the no-damage
\* message.  Towards a tile without a living actor it is refused as having
\* nothing to attack, and nothing changes.
C7_MeleeDamage ==
    [][action'.type = "MeleeAction" =>
          LET f == action'.entity
          IN  IF TargetsOf(action') = {}
              THEN Refused("No entity to attack.") /\ log' = <<>>
              ELSE \E t \in TargetsOf(action') :
                     LET damage == power[f] - defense[t]
                         left == actors[t].hp - damage
                     IN  /\ outcome' = "True"
                         /\ IF damage > 0
                            THEN /\ actors'[t].hp = IF left < 0 THEN 0 ELSE left
                                 /\ \A g \in DOMAIN actors \ {t} :
                                       actors'[g] = actors[g]
                                 /\ log'[1].text = "attacks for hit points."
                                 /\ log'[1].who = f
                                 /\ log'[1].whom = t
                                 /\ log'[1].n = damage
                            ELSE /\ actors' = actors
                                 /\ Len(log') = 1
                                 /\ log'[1].text = "attacks but does no damage."
                                 /\ log'[1].who = f
                                 /\ log'[1].whom = t]_vars

\* a hit that killed its target
C7_KillingHit ==
    /\ action.type = "MeleeAction"
    /\ outcome = "True"
    /\ Len(log) = 2
    /\ log[1].n > 0
    /\ actors[log[1].whom].hp = 0

----------------------------------------------------------------------------
(* PickupAction and ItemAction (actions.py) *)

\* the places in the map's collection of the items lying where actor f stands
ItemsUnder(f) ==
    {i \in 1..Len(entities) :
        items[entities[i]].x = actors[f].x /\ items[entities[i]].y = actors[f].y}

\* C8: a PickupAction by an entity that stands on an item while its inventory
\* holds capacity items is refused as inventory full if the entity is the
\* player, and returns nothing without a message if it is not; it never
\* returns true, and the map's items and every inventory are what they were.
C8_PickupWhenFull ==
    [][(action'.type = "PickupAction"
          /\ ItemsUnder(action'.entity) # {}
          /\ Len(actors[action'.entity].items) >= actors[action'.entity].capacity) =>
          /\ IF action'.entity = Player
             THEN outcome' = "Impossible" /\ raised' = "Your inventory is full."
             ELSE outcome' = "None" /\ raised' = ""
          /\ log' = <<>>
          /\ actors' = actors
          /\ items' = items
          /\ entities' = entities]_vars

\* the orc, its inventory full, standing on an item it did not pick up
C8_OrcLeavesItem ==
    /\ action.type = "PickupAction"
    /\ action.entity = Orc
    /\ outcome = "None"
    /\ Len(actors[Orc].items) = actors[Orc].capacity
    /\ ItemsUnder(Orc) # {}

\* C9: a PickupAction by an entity with room in its inventory takes the item
\* that comes first in the map's collection among those lying where the entity
\* stands: it leaves the collection, whose other items keep their order, its
\* parent becomes the entity's inventory, and it is appended to that
\* inventory; nothing else changes.  With no item there it is refused as
\* nothing to pick up, and nothing changes.
C9_PickupTakesFirst ==
    [][action'.type = "PickupAction" =>
          LET f == action'.entity
              under == ItemsUnder(f)
          IN  IF under = {}
              THEN /\ Refused("There is nothing here to pick up.")
                   /\ items' = items
                   /\ entities' = entities
              ELSE Len(actors[f].items) < actors[f].capacity =>
                     LET i == CHOOSE j \in under : \A k \in under : j <= k
                         it == entities[i]
                     IN  /\ outcome' = "None"
                         /\ entities' = [j \in 1..(Len(entities) - 1) |->
                                           IF j < i THEN entities[j]
                                           ELSE entities[j + 1]]
                         /\ items' = [items EXCEPT ![it].parent = f]
                         /\ actors' = [actors EXCEPT
                                         ![f].items = Append(@, it)]]_vars

\* the player picked up one of two items lying on its tile
C9_PickedOneOfTwo ==
    /\ action.type = "PickupAction"
    /\ action.entity = Player
    /\ outcome = "None"
    /\ actors[Player].items # <<>>
    /\ ItemsUnder(Player) # {}

\* C11: a healing item of any amount, used by an actor with hp hit points,
\* recovers min(amount, max_hp - hp): when that is 0 or less the use is refused
\* as health already full and the item stays in the inventory; otherwise the
\* use succeeds, hp has grown by exactly that much, the message tells it, and
\* the item has left the inventory.
C11_HealingRecovers ==
    [][(action'.type = "ItemAction"
          /\ consumables[action'.item].kind = "Healing") =>
          LET f == action'.entity
              amount == consumables[action'.item].amount
              room == max_hp[f] - actors[f].hp
              recovered == IF amount < room THEN amount ELSE room
          IN  IF recovered <= 0
              THEN /\ outcome' = "Impossible"
                   /\ raised' = "Your health is already full."
                   /\ actors'[f].items = actors[f].items
              ELSE /\ outcome' = "True"
                   /\ actors'[f].hp = actors[f].hp + recovered
                   /\ log'[1].n = recovered
                   /\ actors'[f].items
                        = SelectSeq(actors[f].items,
                                    LAMBDA x : x # action'.item)]_vars

\* a healing item that recovered less than its amount, the room being smaller
C11_PartlyRecovered ==
    /\ action.type = "ItemAction"
    /\ outcome = "True"
    /\ log # <<>>
    /\ log[1].n > 0
    /\ log[1].n < consumables[action.item].amount
    /\ actors[action.entity].hp = max_hp[action.entity]

\* the place of an actor in the map's scan order
ScanIndex(g) == CHOOSE i \in 1..Len(ActorOrder) : ActorOrder[i] = g

\* the square of the distance between two actors
Dist2(f, g) ==
    (actors[f].x - actors[g].x) * (actors[f].x - actors[g].x)
    + (actors[f].y - actors[g].y) * (actors[f].y - actors[g].y)

\* the living actors other than f that stand on a visible tile
VisibleOthers(f) ==
    {g \in DOMAIN actors \ {f} :
        actors[g].ai /\ <<actors[g].x, actors[g].y>> \in visible}

Zapped ==
    /\ action'.type = "ItemAction"
    /\ consumables[action'.item].kind = "Lightning"

\* C12: a lightning scroll that strikes, strikes a living actor other than
\* the user standing on a visible tile, no such actor being nearer to the user
\* and none at the same distance coming earlier in the scan order; the struck
\* actor loses exactly the scroll's damage, but not below 0, and nobody else's
\* hit points change.
C12_StrikesNearestVisible ==
    [][(Zapped /\ outcome' = "True") =>
          LET f == action'.entity
              t == log'[1].who
              left == actors[t].hp - consumables[action'.item].amount
          IN  /\ log'[1].text = "A lightning bolt strikes"
              /\ t \in VisibleOthers(f)
              /\ \A g \in VisibleOthers(f) :
                    \/ Dist2(f, t) < Dist2(f, g)
                    \/ Dist2(f, t) = Dist2(f, g) /\ ScanIndex(t) <= ScanIndex(g)
              /\ actors'[t].hp = IF left < 0 THEN 0 ELSE left
              /\ \A g \in DOMAIN actors \ {t} : actors'[g].hp = actors[g].hp]_vars

\* the orc's scroll struck the player, the troll being alive, visible and as
\* near to the orc as the player is
C12_TieStruckFirst ==
    /\ action.type = "ItemAction"
    /\ action.entity = Orc
    /\ outcome = "True"
    /\ log[1].who = Player
    /\ actors[Troll].ai
    /\ <<actors[Troll].x, actors[Troll].y>> \in visible
    /\ Dist2(Orc, Troll) = Dist2(Orc, Player)

\* the visible living actors other than f at a distance of at most r from f
WithinRange(f, r) == {g \in VisibleOthers(f) : Dist2(f, g) <= r * r}

\* C13: a lightning scroll strikes only an actor at a distance of at most
\* maximum_range from the user; when no living actor other than the user
\* stands on a visible tile that near, the use is refused as no enemy close
\* enough, nobody's hit points change and the scroll stays in the inventory.
C13_StrikesWithinMaxRange ==
    [][Zapped =>
          LET f == action'.entity
              near == WithinRange(f, consumables[action'.item].maximum_range)
          IN  IF near = {}
              THEN /\ outcome' = "Impossible"
                   /\ raised' = "No enemy is close enough to strike."
                   /\ actors' = actors
              ELSE /\ outcome' = "True"
                   /\ log'[1].who \in near]_vars

\* the items lying on the map
OnGround(ents) == {ents[i] : i \in 1..Len(ents)}

\* C14: when the player drops an item of its inventory and at once picks up
\* where it stands, the inventory holds the other items in their previous
\* order followed by the dropped item, and the items lying on the map, and
\* where they lie, are what they were before the drop.
C14_DropPickupRoundTrip ==
    [][action'.type = "DropThenPickup" =>
          /\ actors'[Player].items
               = Append(SelectSeq(actors[Player].items,
                                  LAMBDA x : x # action'.item),
                        action'.item)
          /\ OnGround(entities') = OnGround(entities)
          /\ \A i \in OnGround(entities) :
                items'[i].x = items[i].x /\ items'[i].y = items[i].y]_vars

----------------------------------------------------------------------------
(* HistoryViewer (input_handlers.py) *)

Into(v, lo, hi) == IF v < lo THEN lo ELSE IF v > hi THEN hi ELSE v

\* C15: a key pressed in the history viewer while the cursor is within
\* 0..log_length - 1: up or page up at 0 sets the cursor to log_length - 1;
\* down or page down at log_length - 1 sets it to 0; any other of these four
\* sets it to the cursor plus 1, -1, 10 or -10, brought into
\* 0..log_length - 1; Home sets it to 0 and End to log_length - 1; and the
\* cursor is within 0..log_length - 1 afterwards.
C15_CursorWrapsOrClamps ==
    [][(handler = "HistoryViewer" /\ event'.type = "keydown"
          /\ viewer.cursor \in 0..(viewer.log_length - 1)) =>
          LET c == viewer.cursor
              last == viewer.log_length - 1
              key == event'.sym
              adjust == IF key = K_UP THEN -1
                        ELSE IF key = K_DOWN THEN 1
                        ELSE IF key = K_PAGEUP THEN -10 ELSE 10
          IN  /\ viewer'.log_length = viewer.log_length
              /\ viewer'.cursor \in 0..last
              /\ viewer'.cursor =
                    IF key \in {K_UP, K_DOWN, K_PAGEUP, K_PAGEDOWN}
                    THEN IF adjust < 0 /\ c = 0 THEN last
                         ELSE IF adjust > 0 /\ c = last THEN 0
                         ELSE Into(c + adjust, 0, last)
                    ELSE IF key = K_HOME THEN 0
                    ELSE IF key = K_END THEN last
                    ELSE c]_vars

\* an event that ends the program: the window is closed or escape is pressed
Terminates(ev) ==
    ev.type = "quit" \/ (ev.type = "keydown" /\ ev.sym = K_ESCAPE)

\* C16: an event during which the player's hit points reach 0 ends with the
\* GameOver handler active, whichever handler received it; from then on every
\* key, mouse button and mouse motion leaves GameOver active, performs no
\* action, runs no enemy turn and changes nothing on the map, and only escape
\* or a quit event ends the program.
C16_GameOverIsTerminal ==
    [][/\ (actors[Player].hp > 0 /\ actors'[Player].hp = 0) =>
              handler' = "GameOver"
       /\ handler = "GameOver" =>
              /\ handler' = "GameOver"
              /\ calls' = <<>>
              /\ <<actors', items', entities'>> = <<actors, items, entities>>
              /\ IF Terminates(event')
                 THEN action'.type = "ExitAction" /\ ~running'
                 ELSE action'.type = "None" /\ outcome' = "NoAction" /\ running'
      ]_vars

\* the player, who had picked the scroll up and moved the pointer, is dead, and
\* a key, a click or a pointer move has just been handled by GameOver
C16_DeadAndIgnored ==
    /\ handler = "GameOver"
    /\ actors[Player].hp = 0
    /\ event.type \in {"keydown", "mousebuttondown", "mousemotion"}
    /\ ~Terminates(event)
    /\ mouse_location # <<0, 0>>
    /\ Contains(actors[Player].items, Scroll)

\* C17: AskUserEventHandler.handle_action makes MainGame the active handler
\* and reports true when the action it handled advances the turn; when the
\* action does not advance the turn it leaves the active handler as it was
\* and reports false.
C17_AskUserAutoReturns ==
    [][(handler \in AskUserFamily /\ event' = DirectCall) =>
          IF outcome' = "True"
          THEN handler' = "MainGame" /\ reported' = "True"
          ELSE handler' = handler /\ reported' = "False"]_vars

\* C18: when the action an event produced fails with Impossible (a blocked
\* move from MainGame, an item use or a drop chosen in an inventory menu), the
\* handler that is active after the event is the one that was active before it.
C18_ImpossibleKeepsHandler ==
    [][(event'.type \in {"keydown", "mousebuttondown", "quit"}
          /\ outcome' = "Impossible") => handler' = handler]_vars

\* the keys a..z, in the order of the inventory's slots
SlotKeys == K_a..(K_a + 25)

C20_OnlyLettersSelect ==
    [][(handler \in {"InventoryActivate", "InventoryDrop"}
          /\ event'.type = "keydown" /\ event'.sym \notin SlotKeys) =>
          /\ \A i \in 1..Len(log') : log'[i].text # "Invalid entry."
          /\ action'.type = "None"
          /\ handler' = IF event'.sym \in MODIFIER_KEYS THEN handler
                        ELSE "MainGame"]_vars

\* an event that the subclass of AskUserEventHandler active as h handles
\* itself: a slot key of an inventory menu, a movement or confirm key or an
\* in-bounds left click of a targeting handler
Captured(h, ev) ==
    IF h \in {"InventoryActivate", "InventoryDrop"}
    THEN ev.type = "keydown" /\ ev.sym - K_a \in 0..26
    ELSE \/ ev.type = "keydown" /\ ev.sym \in MoveKeys \cup CONFIRM_KEYS
         \/ /\ ev.type = "mousebuttondown"
            /\ ev.tile \in Tiles
            /\ ev.button = 1

OnMap(t) ==
    0 <= t[1] /\ t[1] <= GameMapWidth - 1 /\ 0 <= t[2] /\ t[2] <= GameMapHeight - 1

\* C22: the shared cursor engine.mouse_location is within the map in every
\* reachable state: a targeting handler starts it at the player's position,
\* a movement key in a targeting handler moves it by the key's direction
\* (times the multiplier when a modifier is held) and stops it at the edges
\* of the map, and a mouse motion sets it to the event's tile when that tile
\* is on the map and otherwise leaves it as it was.
C22_CursorOnMap ==
    /\ [] OnMap(mouse_location)
    /\ [][/\ (handler \notin SelectFamily /\ handler' \in SelectFamily) =>
               mouse_location' = <<actors[Player].x, actors[Player].y>>
          /\ (handler \in SelectFamily /\ event'.type = "keydown"
                /\ event'.sym \in MoveKeys) =>
               /\ OnMap(mouse_location')
               /\ event'.mod = 0 =>
                     mouse_location' =
                       <<Into(mouse_location[1] + MOVE_KEYS(event'.sym)[1],
                              0, GameMapWidth - 1),
                         Into(mouse_location[2] + MOVE_KEYS(event'.sym)[2],
                              0, GameMapHeight - 1)>>
               /\ event'.mod # 0 =>
                     \A i \in 1..2 :
                        LET d == MOVE_KEYS(event'.sym)[i]
                            edge == IF i = 1 THEN GameMapWidth - 1
                                    ELSE GameMapHeight - 1
                        IN  mouse_location'[i] =
                               IF d = 0 THEN mouse_location[i]
                               ELSE IF d < 0 THEN 0 ELSE edge
          /\ event'.type = "mousemotion" =>
               mouse_location' = IF OnMap(event'.tile) THEN event'.tile
                                 ELSE mouse_location
          ]_vars

\* in Look, a movement key pressed with shift held sent the cursor from the
\* first column to the last one
C22_JumpStoppedAtEdge ==
    /\ handler = "Look"
    /\ event.type = "keydown"
    /\ event.sym = K_RIGHT
    /\ event.mod = KMOD_LSHIFT
    /\ actors[Player].x = 0
    /\ mouse_location[1] = GameMapWidth - 1

\* how many times x occurs in the sequence s
Count(s, x) == Cardinality({i \in 1..Len(s) : s[i] = x})

\* the item lies on the ground and nowhere else: once in the map's
\* collection, in no inventory, the map its parent
OwnedByMap(acts, ents, its, it) ==
    /\ Count(ents, it) = 1
    /\ \A a \in DOMAIN acts : Count(acts[a].items, it) = 0
    /\ its[it].parent = GameMap

\* the item is held by the actor a and nowhere else: once in a's inventory,
\* in no other inventory, not in the map's collection, a's inventory its parent
OwnedBy(acts, ents, its, it, a) ==
    /\ Count(ents, it) = 0
    /\ Count(acts[a].items, it) = 1
    /\ \A b \in DOMAIN acts \ {a} : Count(acts[b].items, it) = 0
    /\ its[it].parent = a

\* the item is in neither the map's collection nor any inventory
Gone(acts, ents, it) ==
    /\ Count(ents, it) = 0
    /\ \A a \in DOMAIN acts : Count(acts[a].items, it) = 0

\* C23: in every reachable state each item has exactly one owner, the map
\* (it lies in the ground collection, the map its parent) or one inventory
\* (it is in that inventory's list once, that inventory its parent), or has
\* been consumed and is in neither; an item leaves both only by a use of it
\* that did not fail, a pickup moves the item under the actor from the map to
\* the actor's inventory and a drop moves it from the inventory to the map.
C23_OneOwner ==
    /\ [](\A it \in DOMAIN items :
            \/ OwnedByMap(actors, entities, items, it)
            \/ \E a \in DOMAIN actors : OwnedBy(actors, entities, items, it, a)
            \/ Gone(actors, entities, it))
    /\ [][\A it \in DOMAIN items :
            /\ (Gone(actors', entities', it) /\ ~Gone(actors, entities, it)) =>
                  /\ action'.type = "ItemAction"
                  /\ action'.item = it
                  /\ outcome' = "True"
            /\ (action'.type = "PickupAction" /\ outcome' = "None"
                  /\ OwnedByMap(actors, entities, items, it)
                  /\ ~OwnedByMap(actors', entities', items', it)) =>
                  OwnedBy(actors', entities', items', it, action'.entity)
            /\ (action'.type = "DropAction" /\ action'.item = it
                  /\ outcome' = "None") =>
                  /\ OwnedBy(actors, entities, items, it, action'.entity)
                  /\ OwnedByMap(actors', entities', items', it)
            /\ (action'.type = "ItemAction" /\ action'.item = it
                  /\ outcome' = "True") =>
                  Gone(actors', entities', it)
         ]_vars

\* one item has been used up and the other, picked up and dropped again, has
\* been picked up by the orc
C23_UsedAndPassedOn ==
    /\ \E it \in DOMAIN items : Gone(actors, entities, it)
    /\ \E it \in DOMAIN items : OwnedBy(actors, entities, items, it, Orc)
    /\ action.type = "PickupAction"
    /\ action.entity = Orc

\* C24: PickupAction appends to an inventory only while its length is below
\* its capacity, and no other action lengthens an inventory, so every
\* inventory that starts within its capacity stays within it through every
\* sequence of pickups, drops and uses by any actors.
C24_WithinCapacity ==
    /\ [](\A a \in DOMAIN actors : Len(actors[a].items) <= actors[a].capacity)
    /\ [][\A a \in DOMAIN actors :
            Len(actors'[a].items) > Len(actors[a].items) =>
               /\ action'.type = "PickupAction"
               /\ action'.entity = a
               /\ Len(actors[a].items) < actors[a].capacity
               /\ Len(actors'[a].items) = Len(actors[a].items) + 1
               /\ actors'[a].capacity = actors[a].capacity]_vars

\* the player's inventory is full, another item lies under the player, and
\* the pickup was refused
C24_FullAndRefused ==
    /\ action.type = "PickupAction"
    /\ action.entity = Player
    /\ outcome = "Impossible"
    /\ Len(actors[Player].items) = actors[Player].capacity
    /\ \E it \in DOMAIN items :
          /\ Count(entities, it) = 1
          /\ items[it].x = actors[Player].x
          /\ items[it].y = actors[Player].y

\* C25: PickupAction.perform never returns a true value: it returns nothing
\* when it succeeds, or raises Impossible; so the event in which the player
\* presses g runs neither the enemy turns nor the field-of-view update, and
\* no monster and no visible tile changes, whether an item was picked up or not.
C25_PickupTakesNoTurn ==
    [][(event'.type = "keydown" /\ action'.type = "PickupAction") =>
          /\ outcome' \in {"None", "Impossible"}
          /\ calls' = <<>>
          /\ visible' = visible
          /\ \A m \in DOMAIN actors \ {Player} : actors'[m] = actors[m]
          /\ actors'[Player].hp = actors[Player].hp
          /\ outcome' = "None" =>
                /\ Len(actors'[Player].items) = Len(actors[Player].items) + 1
                /\ Len(entities') = Len(entities) - 1]_vars

\* the player, with the troll next to it, pressed g and holds the item that
\* lay there; nothing else happened
C25_PickedUpNextToTroll ==
    /\ event = [type |-> "keydown", sym |-> K_g]
    /\ action.type = "PickupAction"
    /\ outcome = "None"
    /\ Len(actors[Player].items) > 0
    /\ calls = <<>>
    /\ actors[Troll].ai
    /\ Abs(actors[Troll].x - actors[Player].x) <= 1
    /\ Abs(actors[Troll].y - actors[Player].y) <= 1

\* C10: when an ItemAction of the player ends with a true return, the item is
\* gone from the inventory, the other items keep their order, and the turn
\* advances; when it ends with Impossible, the inventory is what it was, slot
\* by slot, and the turn does not advance.  A healing potion succeeds exactly
\* when the player is below full health.
C10_ItemConsumedIffActivated ==
    [][action'.type = "ItemAction" =>
          /\ Contains(actors[Player].items, action'.item)
          /\ outcome' \in {"True", "Impossible"}
          /\ outcome' = "True" =>
                /\ actors'[Player].items
                     = SelectSeq(actors[Player].items,
                                 LAMBDA x : x # action'.item)
                /\ Len(actors'[Player].items) = Len(actors[Player].items) - 1
                /\ calls' = SweepThenFov
          /\ outcome' = "Impossible" =>
                /\ actors'[Player].items = actors[Player].items
                /\ items' = items
                /\ calls' = <<>>
          /\ consumables[action'.item].kind = "Healing" =>
                (outcome' = "True" <=> actors[Player].hp < PlayerMaxHp)]_vars

\* the potion drunk by a wounded player who keeps the scroll
C10_PotionDrunk ==
    /\ action.type = "ItemAction"
    /\ action.item = Potion
    /\ outcome = "True"
    /\ actors[Player].items = <<Scroll>>

====
